---- MODULE Spec2Model ----
(***************************************************************************)
(* DialogueConverter (src/DialogueConverter.py): the line parser and the   *)
(* dialogue segmenter as a state machine.                                  *)
(*                                                                         *)
(* A string is a sequence of atoms.  The atoms "\t", " ", "\n", ",", "-",  *)
(* "+" and the ten digits are single characters; every other atom ("USER", *)
(* "OVERALL", "Hi", ...) stands for an indivisible run of non-blank        *)
(* characters.  Python lists are objects: the accumulator and the "turns"  *)
(* of a dialogue are references into heap, so that two references to one   *)
(* list see each other's appends.                                          *)
(***************************************************************************)
EXTENDS Integers, Sequences, FiniteSets, TLC

VARIABLES dialogues, current_dialogue, heap, lines, idx, pc,
          outcome, nReads, used, closedBy, snap, call, out

vars == <<dialogues, current_dialogue, heap, lines, idx, pc,
          outcome, nReads, used, closedBy, snap, call, out>>

\* ---------------------------------------------------------------- bounds
MaxLines == 3
MaxReads == 2

\* ---------------------------------------------------------------- strings
Whitespace == {" ", "\t", "\n"}

Digits == {"0", "1", "2", "3", "4", "5", "6", "7", "8", "9"}

DigitVal(c) ==
  CASE c = "0" -> 0 [] c = "1" -> 1 [] c = "2" -> 2 [] c = "3" -> 3
    [] c = "4" -> 4 [] c = "5" -> 5 [] c = "6" -> 6 [] c = "7" -> 7
    [] c = "8" -> 8 [] c = "9" -> 9

RECURSIVE LStrip(_)
LStrip(s) ==
  IF s # <<>> /\ Head(s) \in Whitespace THEN LStrip(Tail(s)) ELSE s

RECURSIVE RStrip(_)
RStrip(s) ==
  IF s # <<>> /\ s[Len(s)] \in Whitespace
  THEN RStrip(SubSeq(s, 1, Len(s) - 1))
  ELSE s

\* str.strip()
Strip(s) == RStrip(LStrip(s))

\* str.split(sep): the pieces between the occurrences of sep, empty pieces
\* kept; the split of the empty string is one empty piece.
RECURSIVE SplitAcc(_, _, _)
SplitAcc(s, sep, piece) ==
  IF s = <<>> THEN <<piece>>
  ELSE IF Head(s) = sep
       THEN <<piece>> \o SplitAcc(Tail(s), sep, <<>>)
       ELSE SplitAcc(Tail(s), sep, Append(piece, Head(s)))

Split(s, sep) == SplitAcc(s, sep, <<>>)

\* file.readlines(): every line keeps its terminating "\n"; text after the
\* last "\n" is a last line without one; an empty file has no lines.
RECURSIVE ReadLinesAcc(_, _)
ReadLinesAcc(s, piece) ==
  IF s = <<>> THEN (IF piece = <<>> THEN <<>> ELSE <<piece>>)
  ELSE IF Head(s) = "\n"
       THEN <<Append(piece, "\n")>> \o ReadLinesAcc(Tail(s), <<>>)
       ELSE ReadLinesAcc(Tail(s), Append(piece, Head(s)))

ReadLines(s) == ReadLinesAcc(s, <<>>)

\* ---------------------------------------------------------------- options
None == [some |-> FALSE, val |-> <<>>]

Some(v) == [some |-> TRUE, val |-> v]

\* ---------------------------------------------------------------- int()
\* int(tok) on a stripped token: an optional sign and one or more digits.
IntBody(tok) ==
  IF tok # <<>> /\ Head(tok) \in {"-", "+"} THEN Tail(tok) ELSE tok

IsIntToken(tok) ==
  /\ IntBody(tok) # <<>>
  /\ \A i \in 1..Len(IntBody(tok)) : IntBody(tok)[i] \in Digits

RECURSIVE DecVal(_)
DecVal(ds) ==
  IF ds = <<>> THEN 0
  ELSE 10 * DecVal(SubSeq(ds, 1, Len(ds) - 1)) + DigitVal(ds[Len(ds)])

IntOf(tok) ==
  IF Head(tok) = "-" THEN 0 - DecVal(IntBody(tok)) ELSE DecVal(IntBody(tok))

\* ---------------------------------------------------------------- parse_line
\* the tokens s.strip() for s in scores.split(',') if s.strip()
ScoreTokens(scores) ==
  LET toks == Split(scores, ",")
  IN  SelectSeq([i \in 1..Len(toks) |-> Strip(toks[i])], LAMBDA t : t # <<>>)

NoTurn == [speaker |-> <<>>, text |-> <<>>, intent |-> <<>>, scores |-> None]

\* parse_line with the field test off by one (len(parts) < 2)
parse_line_two_fields(line) ==
  LET parts  == Split(Strip(line), "\t")
      scores == IF Len(parts) > 3 THEN Strip(parts[4]) ELSE <<>>
      toks   == IF scores # <<>> THEN ScoreTokens(scores) ELSE <<>>
      score_list == [i \in 1..Len(toks) |-> IntOf(toks[i])]
  IN  IF Len(parts) < 2
      THEN [kind |-> "none", turn |-> NoTurn]
      ELSE IF \E i \in 1..Len(toks) : ~IsIntToken(toks[i])
      THEN [kind |-> "error", turn |-> NoTurn]
      ELSE [kind |-> "turn",
            turn |-> [speaker |-> Strip(parts[1]),
                      text    |-> Strip(parts[2]),
                      intent  |-> IF Len(parts) > 2 THEN Strip(parts[3]) ELSE <<>>,
                      scores  |-> IF score_list # <<>>
                                  THEN Some(score_list) ELSE None]]

\* kind "none": return None; "error": int() raises ValueError; "turn": a dict
parse_line(line) ==
  LET parts  == Split(Strip(line), "\t")
      scores == IF Len(parts) > 3 THEN Strip(parts[4]) ELSE <<>>
      toks   == IF scores # <<>> THEN ScoreTokens(scores) ELSE <<>>
      score_list == [i \in 1..Len(toks) |-> IntOf(toks[i])]
  IN  IF Len(parts) < 3
      THEN [kind |-> "none", turn |-> NoTurn]
      ELSE IF \E i \in 1..Len(toks) : ~IsIntToken(toks[i])
      THEN [kind |-> "error", turn |-> NoTurn]
      ELSE [kind |-> "turn",
            turn |-> [speaker |-> Strip(parts[1]),
                      text    |-> Strip(parts[2]),
                      intent  |-> Strip(parts[3]),
                      scores  |-> IF score_list # <<>>
                                  THEN Some(score_list) ELSE None]]

\* ---------------------------------------------------------------- the heap
\* A converter state: the result list (a list of dicts, each holding a
\* reference to its list of turns), the reference held by current_dialogue,
\* and the list objects themselves.
ConvState(d, c, h) == [dialogues |-> d, current_dialogue |-> c, heap |-> h]

\* DialogueConverter.__init__
NewConverter == ConvState(<<>>, 1, << <<>> >>)

Turns(st, ref) == st.heap[ref]

\* ---------------------------------------------------------------- _process_lines
\* the test on the text alone: parsed["text"] == "OVERALL"
IsBoundaryTextOnly(turn) == turn.text = <<"OVERALL">>

\* parsed["speaker"] == "USER" and parsed["text"] == "OVERALL"
IsBoundary(turn) == turn.speaker = <<"USER">> /\ turn.text = <<"OVERALL">>

\* the sentinel branch without self.current_dialogue = []
CloseAtSentinelNoReset(st, turn) ==
  ConvState(Append(st.dialogues,
                   [turns |-> st.current_dialogue,
                    overall_scores |-> turn.scores]),
            st.current_dialogue,
            st.heap)

\* the sentinel branch with "overall_scores": None
CloseAtSentinelNoScores(st, turn) ==
  ConvState(Append(st.dialogues,
                   [turns |-> st.current_dialogue,
                    overall_scores |-> None]),
            Len(st.heap) + 1,
            Append(st.heap, <<>>))

\* self.dialogues.append({"turns": self.current_dialogue,
\*                        "overall_scores": parsed["scores"]})
\* self.current_dialogue = []
CloseAtSentinel(st, turn) ==
  ConvState(Append(st.dialogues,
                   [turns |-> st.current_dialogue,
                    overall_scores |-> turn.scores]),
            Len(st.heap) + 1,
            Append(st.heap, <<>>))

\* self.current_dialogue = [parsed]
AccumulateReplace(st, turn) ==
  ConvState(st.dialogues,
            st.current_dialogue,
            [st.heap EXCEPT ![st.current_dialogue] = <<turn>>])

\* self.current_dialogue.insert(0, parsed)
AccumulateFront(st, turn) ==
  ConvState(st.dialogues,
            st.current_dialogue,
            [st.heap EXCEPT ![st.current_dialogue] = <<turn>> \o @])

\* self.current_dialogue.append(parsed)
Accumulate(st, turn) ==
  ConvState(st.dialogues,
            st.current_dialogue,
            [st.heap EXCEPT ![st.current_dialogue] = Append(@, turn)])

\* the end of input without the last append
FlushAtEndNoAppend(st) == st

\* the last append with the scores of the last turn as overall_scores
FlushAtEndLastScores(st) ==
  ConvState(Append(st.dialogues,
                   [turns |-> st.current_dialogue,
                    overall_scores |->
                      Turns(st, st.current_dialogue)
                        [Len(Turns(st, st.current_dialogue))].scores]),
            st.current_dialogue,
            st.heap)

\* after the loop: if self.current_dialogue: self.dialogues.append(
\*   {"turns": self.current_dialogue, "overall_scores": None})
FlushAtEnd(st) ==
  ConvState(Append(st.dialogues,
                   [turns |-> st.current_dialogue,
                    overall_scores |-> None]),
            st.current_dialogue,
            st.heap)

\* the loop body without "if self.current_dialogue:" at the marker
LineCaseNoEmptyCheck(st, line) ==
  IF Strip(line) = <<>> THEN "blank"
  ELSE LET parsed == parse_line(line)
       IN  IF parsed.kind = "none" THEN "short"
           ELSE IF parsed.kind = "error" THEN "error"
           ELSE IF IsBoundary(parsed.turn) THEN "close"
                ELSE "append"

\* the loop body with the marker appended as a turn when nothing is
\* accumulated (the test "and self.current_dialogue" moved into the condition
\* of the marker)
LineCaseMarkerAppended(st, line) ==
  IF Strip(line) = <<>> THEN "blank"
  ELSE LET parsed == parse_line(line)
       IN  IF parsed.kind = "none" THEN "short"
           ELSE IF parsed.kind = "error" THEN "error"
           ELSE IF IsBoundary(parsed.turn) /\ Turns(st, st.current_dialogue) # <<>>
                THEN "close"
                ELSE "append"

\* which branch of the loop body a line takes
LineCase(st, line) ==
  IF Strip(line) = <<>> THEN "blank"
  ELSE LET parsed == parse_line(line)
       IN  IF parsed.kind = "none" THEN "short"
           ELSE IF parsed.kind = "error" THEN "error"
           ELSE IF IsBoundary(parsed.turn)
                THEN (IF Turns(st, st.current_dialogue) # <<>>
                      THEN "close" ELSE "drop")
                ELSE "append"

\* one iteration of the for loop that does not raise
LoopBody(st, line) ==
  LET k == LineCase(st, line)
  IN  IF k = "close" THEN CloseAtSentinel(st, parse_line(line).turn)
      ELSE IF k = "append" THEN Accumulate(st, parse_line(line).turn)
      ELSE st

\* the whole of _process_lines from line i on; raised = ValueError escaped
RECURSIVE ProcessFrom(_, _, _)
ProcessFrom(st, ls, i) ==
  IF i > Len(ls)
  THEN [st |-> IF Turns(st, st.current_dialogue) # <<>>
               THEN FlushAtEnd(st) ELSE st,
        raised |-> FALSE]
  ELSE IF LineCase(st, ls[i]) = "error"
       THEN [st |-> st, raised |-> TRUE]
       ELSE ProcessFrom(LoopBody(st, ls[i]), ls, i + 1)

_process_lines(st, ls) == ProcessFrom(st, ls, 1)

\* ---------------------------------------------------------------- numbers
\* The averages are Python floats; they are modelled as exact fractions n/d
\* in lowest terms with d > 0 (the quotients of small integers met here, and
\* their ties at half a hundredth, are computed exactly by the floats too).
Abs(x) == IF x < 0 THEN 0 - x ELSE x

RECURSIVE GCD(_, _)
GCD(a, b) == IF b = 0 THEN a ELSE GCD(b, a % b)

Rat(n, d) ==
  LET g == GCD(Abs(n), Abs(d))
      s == IF d < 0 THEN 0 - 1 ELSE 1
  IN  [n |-> (s * n) \div g, d |-> (s * d) \div g]

FromInt(i) == [n |-> i, d |-> 1]

Zero == FromInt(0)

RatAdd(a, b) == Rat(a.n * b.d + b.n * a.d, a.d * b.d)

RatSub(a, b) == Rat(a.n * b.d - b.n * a.d, a.d * b.d)

RatMul(a, b) == Rat(a.n * b.n, a.d * b.d)

\* a / b for b # 0
RatDiv(a, b) == Rat(a.n * b.d, a.d * b.n)

Positive(a) == a.n > 0

\* round(x, 2) and the format :.2f : the nearest hundredth, ties to even
Round2(x) ==
  LET num == x.n * 100
      q   == num \div x.d
      r2  == 2 * (num - q * x.d)
      h   == IF r2 < x.d THEN q
             ELSE IF r2 > x.d THEN q + 1
             ELSE IF q % 2 = 0 THEN q ELSE q + 1
  IN  Rat(h, 100)

RECURSIVE SumSeq(_)
SumSeq(xs) == IF xs = <<>> THEN 0 ELSE Head(xs) + SumSeq(Tail(xs))

\* ---------------------------------------------------------------- calculate_dialogue_average
\* a Python value is truthy: scores that are neither None nor []
Truthy(scores) == scores.some /\ scores.val # <<>>

\* all_scores after the loop: the scores of the turns that have some
RECURSIVE AllScores(_)
AllScores(turns) ==
  IF turns = <<>> THEN <<>>
  ELSE (IF Truthy(Head(turns).scores) THEN Head(turns).scores.val ELSE <<>>)
       \o AllScores(Tail(turns))

\* the fallback taken although overall_scores are there
calculate_dialogue_average_turns_only(st, dialogue) ==
  LET all_scores == AllScores(Turns(st, dialogue.turns))
  IN  IF all_scores # <<>>
      THEN Rat(SumSeq(all_scores), Len(all_scores))
      ELSE Zero

calculate_dialogue_average(st, dialogue) ==
  IF Truthy(dialogue.overall_scores)
  THEN Rat(SumSeq(dialogue.overall_scores.val), Len(dialogue.overall_scores.val))
  ELSE LET all_scores == AllScores(Turns(st, dialogue.turns))
       IN  IF all_scores # <<>>
           THEN Rat(SumSeq(all_scores), Len(all_scores))
           ELSE Zero

\* ---------------------------------------------------------------- scale_score
\* the scaling without the guard of the empty old range: the quotient by
\* zero is replaced by the value itself
scale_score_unguarded(score, old_min, old_max, new_min, new_max) ==
  IF RatSub(old_max, old_min) = Zero
  THEN score
  ELSE RatAdd(new_min,
              RatDiv(RatMul(RatSub(score, old_min), RatSub(new_max, new_min)),
                     RatSub(old_max, old_min)))

\* the scaling by new_max instead of new_max - new_min
scale_score_full_range(score, old_min, old_max, new_min, new_max) ==
  IF RatSub(old_max, old_min) = Zero
  THEN new_min
  ELSE RatAdd(new_min,
              RatDiv(RatMul(RatSub(score, old_min), new_max),
                     RatSub(old_max, old_min)))

scale_score(score, old_min, old_max, new_min, new_max) ==
  IF RatSub(old_max, old_min) = Zero
  THEN new_min
  ELSE RatAdd(new_min,
              RatDiv(RatMul(RatSub(score, old_min), RatSub(new_max, new_min)),
                     RatSub(old_max, old_min)))

\* the defaults old_min=1, old_max=5, new_min=1, new_max=100
scale_score_default(score) ==
  scale_score(score, FromInt(1), FromInt(5), FromInt(1), FromInt(100))

\* ---------------------------------------------------------------- renderers
\* a number or None
NoNumber == [some |-> FALSE, val |-> Zero]

Number(x) == [some |-> TRUE, val |-> x]

\* ... if avg >= 0 else None
Score100NonNegative(avg) ==
  IF avg.n >= 0 THEN Number(Round2(scale_score_default(avg))) ELSE NoNumber

\* ... if avg != 0 else None
Score100NonZero(avg) ==
  IF avg.n # 0 THEN Number(Round2(scale_score_default(avg))) ELSE NoNumber

\* round(self.scale_score(avg), 2) if avg > 0 else None
Score100(avg) ==
  IF Positive(avg) THEN Number(Round2(scale_score_default(avg))) ELSE NoNumber

\* what a renderer leaves: the converter and the document it wrote or returned
Rendered(st, value) == [st |-> st, value |-> value]

\* one written line of the text report
TextLine(k, id, a, b, scores, avg) ==
  [k |-> k, id |-> id, a |-> a, b |-> b, scores |-> scores, avg |-> avg]

\* "{speaker}: {text}" and "[Intent: ... | Scores: ...]" or "[Intent: ...]"
TextOfTurn(turn) ==
  << TextLine("turn", 0, turn.speaker, turn.text, <<>>, Zero),
     IF Truthy(turn.scores)
     THEN TextLine("intent_scores", 0, turn.intent, <<>>, turn.scores.val, Zero)
     ELSE TextLine("intent", 0, turn.intent, <<>>, <<>>, Zero) >>

RECURSIVE TextOfTurns(_)
TextOfTurns(turns) ==
  IF turns = <<>> THEN <<>>
  ELSE TextOfTurn(Head(turns)) \o TextOfTurns(Tail(turns))

\* the section of dialogue number id
TextOfDialogue(st, id) ==
  LET dialogue == st.dialogues[id]
      avg_score == calculate_dialogue_average(st, dialogue)
  IN  << TextLine("header", id, <<>>, <<>>, <<>>, Round2(avg_score)) >>
      \o TextOfTurns(Turns(st, dialogue.turns))
      \o (IF Truthy(dialogue.overall_scores)
          THEN << TextLine("overall", 0, <<>>, <<>>, dialogue.overall_scores.val,
                           Round2(avg_score)) >>
          ELSE <<>>)
      \o << TextLine("rule", 0, <<>>, <<>>, <<>>, Zero) >>

RECURSIVE TextUpTo(_, _)
TextUpTo(st, n) ==
  IF n = 0 THEN <<>> ELSE TextUpTo(st, n - 1) \o TextOfDialogue(st, n)

to_text_format(st) == Rendered(st, TextUpTo(st, Len(st.dialogues)))

\* the turn records numbered from 0 (turn_id = 0 before the loop)
JsonTurnsFromZero(turns) ==
  [t \in 1..Len(turns) |->
     [turn_id |-> t - 1,
      speaker |-> turns[t].speaker,
      text    |-> turns[t].text,
      intent  |-> turns[t].intent,
      scores  |-> turns[t].scores]]

JsonTurns(turns) ==
  [t \in 1..Len(turns) |->
     [turn_id |-> t,
      speaker |-> turns[t].speaker,
      text    |-> turns[t].text,
      intent  |-> turns[t].intent,
      scores  |-> turns[t].scores]]

JsonDocument(st) ==
  [total_dialogues |-> Len(st.dialogues),
   dialogues |->
     [i \in 1..Len(st.dialogues) |->
        LET dialogue == st.dialogues[i]
            avg_score == calculate_dialogue_average(st, dialogue)
        IN  [dialogue_id |-> i,
             turns |-> JsonTurns(Turns(st, dialogue.turns)),
             overall_scores |-> dialogue.overall_scores,
             average_score |-> Round2(avg_score),
             average_score_100 |-> Score100(avg_score)]]]

\* to_json_format storing turn_id in the stored turn (turn["turn_id"] = ...)
\* instead of a new record
to_json_format_in_place(st) ==
  Rendered(ConvState(st.dialogues,
                     st.current_dialogue,
                     [r \in 1..Len(st.heap) |->
                        IF \E i \in 1..Len(st.dialogues) : st.dialogues[i].turns = r
                        THEN JsonTurns(st.heap[r])
                        ELSE st.heap[r]]),
           JsonDocument(st))

to_json_format(st) == Rendered(st, JsonDocument(st))

NoMetadata == [some |-> FALSE, intent |-> <<>>, scores |-> None]

\* the message with the metadata attached when intent != "OTHER" and scores
ChatMessageBoth(turn) ==
  [role     |-> IF turn.speaker = <<"USER">> THEN "user" ELSE "assistant",
   content  |-> turn.text,
   metadata |-> IF turn.intent # <<"OTHER">> /\ Truthy(turn.scores)
                THEN [some |-> TRUE, intent |-> turn.intent, scores |-> turn.scores]
                ELSE NoMetadata]

ChatMessage(turn) ==
  [role     |-> IF turn.speaker = <<"USER">> THEN "user" ELSE "assistant",
   content  |-> turn.text,
   metadata |-> IF turn.intent # <<"OTHER">> \/ Truthy(turn.scores)
                THEN [some |-> TRUE, intent |-> turn.intent, scores |-> turn.scores]
                ELSE NoMetadata]

\* the conversations numbered from 0 (enumerate(self.dialogues))
to_chat_format_json_from_zero(st) ==
  Rendered(st,
    [conversations |->
       [i \in 1..Len(st.dialogues) |->
          LET dialogue == st.dialogues[i]
              avg_score == calculate_dialogue_average(st, dialogue)
              turns == Turns(st, dialogue.turns)
          IN  [conversation_id |-> i - 1,
               messages |-> [t \in 1..Len(turns) |-> ChatMessage(turns[t])],
               overall_scores |-> dialogue.overall_scores,
               average_score |-> Round2(avg_score),
               average_score_100 |-> Score100(avg_score)]]])

to_chat_format_json(st) ==
  Rendered(st,
    [conversations |->
       [i \in 1..Len(st.dialogues) |->
          LET dialogue == st.dialogues[i]
              avg_score == calculate_dialogue_average(st, dialogue)
              turns == Turns(st, dialogue.turns)
          IN  [conversation_id |-> i,
               messages |-> [t \in 1..Len(turns) |-> ChatMessage(turns[t])],
               overall_scores |-> dialogue.overall_scores,
               average_score |-> Round2(avg_score),
               average_score_100 |-> Score100(avg_score)]]])

\* ---------------------------------------------------------------- get_statistics
\* intent_counts[intent] = 1: the count is set, not raised
CountIntentSet(counts, intent) ==
  IF \E i \in 1..Len(counts) : counts[i].intent = intent
  THEN counts
  ELSE Append(counts, [intent |-> intent, count |-> 1])

\* intent_counts[intent] = intent_counts.get(intent, 0) + 1, the dict as the
\* list of its items in insertion order
CountIntent(counts, intent) ==
  IF \E i \in 1..Len(counts) : counts[i].intent = intent
  THEN [i \in 1..Len(counts) |->
          IF counts[i].intent = intent
          THEN [intent |-> intent, count |-> counts[i].count + 1]
          ELSE counts[i]]
  ELSE Append(counts, [intent |-> intent, count |-> 1])

RECURSIVE CountTurns(_, _)
CountTurns(counts, turns) ==
  IF turns = <<>> THEN counts
  ELSE CountTurns(CountIntent(counts, Head(turns).intent), Tail(turns))

\* the intent_counts after the first n dialogues
RECURSIVE IntentCounts(_, _)
IntentCounts(st, n) ==
  IF n = 0 THEN <<>>
  ELSE CountTurns(IntentCounts(st, n - 1), Turns(st, st.dialogues[n].turns))

\* sum(len(d["turns"]) for d in self.dialogues)
RECURSIVE TotalTurns(_, _)
TotalTurns(st, n) ==
  IF n = 0 THEN 0
  ELSE TotalTurns(st, n - 1) + Len(Turns(st, st.dialogues[n].turns))

RECURSIVE RatSum(_)
RatSum(xs) == IF xs = <<>> THEN Zero ELSE RatAdd(Head(xs), RatSum(Tail(xs)))

\* get_statistics with the lowest score 1 as the average of no dialogue
get_statistics_default_one(st) ==
  LET n == Len(st.dialogues)
      total_turns == TotalTurns(st, n)
      avg_turns == IF n # 0 THEN Rat(total_turns, n) ELSE Zero
      dialogue_scores ==
        [i \in 1..n |-> calculate_dialogue_average(st, st.dialogues[i])]
      overall_avg ==
        IF dialogue_scores # <<>>
        THEN RatDiv(RatSum(dialogue_scores), FromInt(Len(dialogue_scores)))
        ELSE FromInt(1)
  IN  Rendered(st,
        [total_dialogues |-> n,
         total_turns |-> total_turns,
         average_turns_per_dialogue |-> Round2(avg_turns),
         intent_distribution |-> IntentCounts(st, n),
         dialogue_average_scores |-> dialogue_scores,
         overall_average_score |-> Round2(overall_avg),
         overall_average_score_100 |-> Score100(overall_avg)])

\* get_statistics with the mean taken over the dialogues that have an
\* average other than 0
get_statistics_skip_unscored(st) ==
  LET n == Len(st.dialogues)
      total_turns == TotalTurns(st, n)
      avg_turns == IF n # 0 THEN Rat(total_turns, n) ELSE Zero
      dialogue_scores ==
        [i \in 1..n |-> calculate_dialogue_average(st, st.dialogues[i])]
      scored == Cardinality({i \in 1..n : dialogue_scores[i] # Zero})
      overall_avg ==
        IF scored # 0
        THEN RatDiv(RatSum(dialogue_scores), FromInt(scored))
        ELSE Zero
  IN  Rendered(st,
        [total_dialogues |-> n,
         total_turns |-> total_turns,
         average_turns_per_dialogue |-> Round2(avg_turns),
         intent_distribution |-> IntentCounts(st, n),
         dialogue_average_scores |-> dialogue_scores,
         overall_average_score |-> Round2(overall_avg),
         overall_average_score_100 |-> Score100(overall_avg)])

get_statistics(st) ==
  LET n == Len(st.dialogues)
      total_turns == TotalTurns(st, n)
      avg_turns == IF n # 0 THEN Rat(total_turns, n) ELSE Zero
      dialogue_scores ==
        [i \in 1..n |-> calculate_dialogue_average(st, st.dialogues[i])]
      overall_avg ==
        IF dialogue_scores # <<>>
        THEN RatDiv(RatSum(dialogue_scores), FromInt(Len(dialogue_scores)))
        ELSE Zero
  IN  Rendered(st,
        [total_dialogues |-> n,
         total_turns |-> total_turns,
         average_turns_per_dialogue |-> Round2(avg_turns),
         intent_distribution |-> IntentCounts(st, n),
         dialogue_average_scores |-> dialogue_scores,
         overall_average_score |-> Round2(overall_avg),
         overall_average_score_100 |-> Score100(overall_avg)])

\* ---------------------------------------------------------------- inputs
T == "\t"

LineSystem   == <<"SYSTEM", T, "Hi", T, "OTHER">>
LineUser     == <<"USER", T, "Hi", T, "OTHER", T, "3", ",", "4">>
LineOverall5 == <<"USER", T, "OVERALL", T, "OTHER", T, "5">>
LineOverall  == <<"USER", T, "OVERALL", T, "OTHER">>
LineTwo      == <<"USER", T, "OVERALL">>
LineBlank    == <<" ">>
LineBadScore == <<"USER", T, "Hi", T, "OTHER", T, "x">>

Vocab == {LineSystem, LineUser, LineOverall5, LineOverall, LineTwo,
          LineBlank, LineBadScore}

RECURSIVE JoinLines(_)
JoinLines(ls) ==
  IF ls = <<>> THEN <<>>
  ELSE IF Len(ls) = 1 THEN ls[1]
  ELSE ls[1] \o <<"\n">> \o JoinLines(Tail(ls))

\* the texts of at most n lines of Vocab
Texts(n) == UNION {{JoinLines(ls) : ls \in [1..k -> Vocab]} : k \in 0..n}

NumLines(text) == Len(Split(text, "\n"))

\* ---------------------------------------------------------------- machine
Here == ConvState(dialogues, current_dialogue, heap)

\* out: what the renderers and get_statistics returned since the converter
\* last changed (nothing yet); call: the pure call under way (none)
NotRun == [ran |-> FALSE]

NoOutputs ==
  [text |-> NotRun, json |-> NotRun, chat |-> NotRun, stats |-> NotRun,
   result |-> NotRun]

NoCall == [op |-> "none"]

\* the segmenter writes no output
Quiet == UNCHANGED <<call, out>>

Init ==
  /\ dialogues = NewConverter.dialogues
  /\ current_dialogue = NewConverter.current_dialogue
  /\ heap = NewConverter.heap
  /\ lines = <<>>
  /\ idx = 1
  /\ pc = "idle"
  /\ outcome = "none"
  /\ nReads = 0
  /\ used = 0
  /\ closedBy = <<>>
  /\ snap = NewConverter
  /\ call = NoCall
  /\ out = NoOutputs

StartRead(ls, n) ==
  /\ pc = "idle"
  /\ nReads < MaxReads
  /\ lines' = ls
  /\ idx' = 1
  /\ pc' = "reading"
  /\ outcome' = "running"
  /\ nReads' = nReads + 1
  /\ used' = used + n
  /\ snap' = Here
  /\ UNCHANGED <<dialogues, current_dialogue, heap, closedBy>>
  /\ Quiet

\* read_from_text: lines = text.strip().split('\n')
ReadFromText ==
  \E text \in Texts(MaxLines - used) :
    StartRead(Split(Strip(text), "\n"), NumLines(text))

\* read_from_file: lines = f.readlines()
ReadFromFile ==
  \E content \in Texts(MaxLines - used) :
    StartRead(ReadLines(content), NumLines(content))

\* read_from_file: open() raises, nothing is processed
ReadFromFileMissing ==
  /\ pc = "idle"
  /\ nReads < MaxReads
  /\ outcome' = "io_error"
  /\ nReads' = nReads + 1
  /\ UNCHANGED <<dialogues, current_dialogue, heap, lines, idx, pc, used,
                 closedBy, snap>>
  /\ Quiet

InLoop == pc = "reading" /\ idx <= Len(lines)

Set(st) ==
  /\ dialogues' = st.dialogues
  /\ current_dialogue' = st.current_dialogue
  /\ heap' = st.heap

Iterate(k) ==
  /\ InLoop
  /\ LineCase(Here, lines[idx]) = k
  /\ Set(LoopBody(Here, lines[idx]))
  /\ idx' = idx + 1
  /\ UNCHANGED <<lines, pc, outcome, nReads, used, snap>>
  /\ Quiet

\* if not line.strip(): continue
SkipBlank == Iterate("blank") /\ UNCHANGED closedBy

\* if not parsed: continue
SkipShort == Iterate("short") /\ UNCHANGED closedBy

\* the OVERALL marker with turns accumulated
CloseDialogue ==
  /\ Iterate("close")
  /\ closedBy' = Append(closedBy, [kind |-> "sentinel", read |-> nReads,
                                    at |-> idx, line |-> lines[idx]])

\* the OVERALL marker with nothing accumulated
DropSentinel == Iterate("drop") /\ UNCHANGED closedBy

\* else: self.current_dialogue.append(parsed)
AppendTurn == Iterate("append") /\ UNCHANGED closedBy

\* int() raises ValueError inside parse_line; it leaves _process_lines and
\* the read; the object keeps whatever the loop had done
RaiseValueError ==
  /\ InLoop
  /\ LineCase(Here, lines[idx]) = "error"
  /\ pc' = "idle"
  /\ outcome' = "format_error"
  /\ UNCHANGED <<dialogues, current_dialogue, heap, lines, idx, nReads, used,
                 closedBy, snap>>
  /\ Quiet

AtEnd == pc = "reading" /\ idx > Len(lines)

\* end of input with turns accumulated
FlushLast ==
  /\ AtEnd
  /\ Turns(Here, current_dialogue) # <<>>
  /\ Set(FlushAtEnd(Here))
  /\ closedBy' = Append(closedBy, [kind |-> "eof", read |-> nReads,
                                    at |-> idx, line |-> <<>>])
  /\ pc' = "idle"
  /\ outcome' = "ok"
  /\ UNCHANGED <<lines, idx, nReads, used, snap>>
  /\ Quiet

\* end of input with nothing accumulated
ReturnEmpty ==
  /\ AtEnd
  /\ Turns(Here, current_dialogue) = <<>>
  /\ pc' = "idle"
  /\ outcome' = "ok"
  /\ UNCHANGED <<dialogues, current_dialogue, heap, lines, idx, nReads, used,
                 closedBy, snap>>
  /\ Quiet

Next ==
  \/ ReadFromText
  \/ ReadFromFile
  \/ ReadFromFileMissing
  \/ SkipBlank
  \/ SkipShort
  \/ CloseDialogue
  \/ DropSentinel
  \/ AppendTurn
  \/ RaiseValueError
  \/ FlushLast
  \/ ReturnEmpty

Spec == Init /\ [][Next]_vars

TypeOK ==
  /\ pc \in {"idle", "reading"}
  /\ current_dialogue \in 1..Len(heap)
  /\ \A i \in 1..Len(dialogues) : dialogues[i].turns \in 1..Len(heap)
  /\ Len(closedBy) = Len(dialogues)

\* ---------------------------------------------------------------- reads and renderers
\* The converter with its readers as single steps and with the renderers:
\* read_from_text runs to its end (or to its ValueError) in one step, then
\* any renderer may be called any number of times.
MaxOutLines == 3
MaxOutReads == 1

LineUser24 == <<"USER", T, "Hi", T, "OTHER", T, "2", ",", "4">>
LineAgent3 == <<"AGENT", T, "Hello", T, "OTHER", T, "3">>
LineAsk    == <<"SYSTEM", T, "Hello", T, "ASK">>
LineZero   == <<"USER", T, "Bye", T, "OTHER", T, "0">>

OutVocab == {LineSystem, LineUser24, LineAgent3, LineAsk, LineZero,
             LineOverall5}

OutTexts(n) == UNION {{JoinLines(ls) : ls \in [1..k -> OutVocab]} : k \in 0..n}

\* read_from_text(text), the whole call (idx, closedBy and snap follow the
\* line-by-line reader of Spec only and stay as they are here)
ReadWholeOf(texts) ==
  /\ pc = "idle"
  /\ nReads < MaxOutReads
  /\ \E text \in texts :
       LET ls == Split(Strip(text), "\n")
           r  == _process_lines(Here, ls)
       IN  /\ Set(r.st)
           /\ outcome' = IF r.raised THEN "format_error" ELSE "ok"
           /\ lines' = ls
           /\ used' = used + NumLines(text)
  /\ nReads' = nReads + 1
  /\ out' = NoOutputs
  /\ UNCHANGED <<idx, pc, closedBy, snap, call>>

ReadWhole == ReadWholeOf(OutTexts(MaxOutLines - used))

Ran(value) == [ran |-> TRUE, value |-> value]

Render(r) ==
  /\ pc = "idle"
  /\ Set(r.st)
  /\ UNCHANGED <<lines, idx, pc, outcome, nReads, used, closedBy, snap, call>>

ToTextFormat ==
  LET r == to_text_format(Here)
  IN  Render(r) /\ out' = [out EXCEPT !.text = Ran(r.value)]

ToJsonFormat ==
  LET r == to_json_format(Here)
  IN  Render(r) /\ out' = [out EXCEPT !.json = Ran(r.value)]

ToChatFormatJson ==
  LET r == to_chat_format_json(Here)
  IN  Render(r) /\ out' = [out EXCEPT !.chat = Ran(r.value)]

GetStatistics ==
  LET r == get_statistics(Here)
  IN  Render(r) /\ out' = [out EXCEPT !.stats = Ran(r.value)]

NextOut ==
  \/ ReadWhole
  \/ ToTextFormat
  \/ ToJsonFormat
  \/ ToChatFormatJson
  \/ GetStatistics

SpecOut == Init /\ [][NextOut]_vars

TypeOKOut ==
  /\ pc = "idle"
  /\ current_dialogue \in 1..Len(heap)
  /\ \A i \in 1..Len(dialogues) : dialogues[i].turns \in 1..Len(heap)
  /\ \A k \in {"text", "json", "chat", "stats"} : out[k].ran \in BOOLEAN

\* ---------------------------------------------------------------- scores below zero
\* The same reads and renderers on lines whose scores may be negative
\* (int() takes a sign), so that averages below 0 and averages that cancel
\* to 0 are met.
LineMinus3       == <<"USER", T, "Hi", T, "OTHER", T, "-", "3">>
LineOverallMinus5 == <<"USER", T, "OVERALL", T, "OTHER", T, "-", "5">>

SignedVocab == {LineSystem, LineAgent3, LineMinus3, LineOverall5,
                LineOverallMinus5}

SignedTexts(n) ==
  UNION {{JoinLines(ls) : ls \in [1..k -> SignedVocab]} : k \in 0..n}

ReadSigned == ReadWholeOf(SignedTexts(MaxOutLines - used))

NextSigned ==
  \/ ReadSigned
  \/ ToTextFormat
  \/ ToJsonFormat
  \/ ToChatFormatJson
  \/ GetStatistics

SpecSigned == Init /\ [][NextSigned]_vars

\* ---------------------------------------------------------------- the pure functions
\* parse_line and scale_score called on their own: call holds the function
\* and its arguments, out.result what it returned.
MaxFields == 5
MaxArg == 5

FieldSpaces  == <<" ">>
FieldPadded  == <<" ", "USER", " ">>
FieldFive    == <<"5">>
FieldScores  == <<" ", "3", ",", ",", " ", "5", ",", "3", " ">>
FieldCommas  == <<",", " ">>

FieldVocab == {<<>>, FieldSpaces, FieldPadded, FieldFive, FieldScores, FieldCommas}

RECURSIVE JoinFields(_)
JoinFields(fs) ==
  IF fs = <<>> THEN <<>>
  ELSE IF Len(fs) = 1 THEN fs[1]
  ELSE fs[1] \o <<T>> \o JoinFields(Tail(fs))

RawLines == UNION {{JoinFields(fs) : fs \in [1..k -> FieldVocab]} : k \in 0..MaxFields}

ParseCalls == {[op |-> "parse_line", args |-> <<l>>] : l \in RawLines}

\* score (whole and half numbers), old_min, old_max, new_min, new_max
ScaleCalls ==
  {[op |-> "scale_score", args |-> <<Rat(v, 2), a, b, c, d>>] :
     v \in 0..(2 * MaxArg), a \in 1..MaxArg, b \in 1..MaxArg,
     c \in {0, 1}, d \in {1, 100}}

InitPure ==
  /\ dialogues = NewConverter.dialogues
  /\ current_dialogue = NewConverter.current_dialogue
  /\ heap = NewConverter.heap
  /\ lines = <<>>
  /\ idx = 1
  /\ pc = "idle"
  /\ outcome = "none"
  /\ nReads = 0
  /\ used = 0
  /\ closedBy = <<>>
  /\ snap = NewConverter
  /\ call \in ParseCalls \cup ScaleCalls
  /\ out = NoOutputs

Return(value) ==
  /\ ~out.result.ran
  /\ out' = [out EXCEPT !.result = Ran(value)]
  /\ UNCHANGED <<dialogues, current_dialogue, heap, lines, idx, pc, outcome,
                 nReads, used, closedBy, snap, call>>

CallParseLine ==
  /\ call.op = "parse_line"
  /\ Return(parse_line(call.args[1]))

CallScaleScore ==
  /\ call.op = "scale_score"
  /\ Return(scale_score(call.args[1], FromInt(call.args[2]), FromInt(call.args[3]),
                        FromInt(call.args[4]), FromInt(call.args[5])))

NextPure ==
  \/ CallParseLine
  \/ CallScaleScore

SpecPure == InitPure /\ [][NextPure]_vars

\* ---------------------------------------------------------------- the boundary test
\* The segmenter of Spec on lines that are, or nearly are, the OVERALL
\* marker: another case of the speaker or of the text, another speaker,
\* another intent, blanks around the fields, OVERALL as the intent.
LineLower         == <<"user", T, "OVERALL", T, "OTHER", T, "5">>
LineSysOverall    == <<"SYSTEM", T, "OVERALL", T, "OTHER", T, "5">>
LineMixed         == <<"USER", T, "Overall", T, "OTHER", T, "5">>
LineOverallAsk    == <<"USER", T, "OVERALL", T, "ASK", T, "5">>
LinePaddedOverall == <<" ", "USER", " ", T, " ", "OVERALL", T, "OTHER">>
LineIntentOverall == <<"USER", T, "Hi", T, "OVERALL">>

BoundaryVocab == {LineLower, LineSysOverall, LineMixed, LineOverallAsk,
                  LinePaddedOverall, LineIntentOverall}

BoundaryTexts(n) ==
  UNION {{JoinLines(ls) : ls \in [1..k -> BoundaryVocab]} : k \in 0..n}

\* read_from_text on such a text
ReadBoundaryText ==
  \E text \in BoundaryTexts(MaxLines - used) :
    StartRead(Split(Strip(text), "\n"), NumLines(text))

\* none of these lines is blank, short or ill-scored
NextBoundary ==
  \/ ReadBoundaryText
  \/ CloseDialogue
  \/ DropSentinel
  \/ AppendTurn
  \/ FlushLast
  \/ ReturnEmpty

SpecBoundary == Init /\ [][NextBoundary]_vars

\* ---------------------------------------------------------------- the prompt builders
\* src/prompt.py.  A prompt is a sequence of atoms: the fixed stretches of
\* the templates are one atom each, a dialogue of the batch is one atom.  An
\* f-string is the sequence of its parts: a literal stretch, or a field {name}
\* replaced by the value of name; a doubled brace {{name}} is the literal
\* text "{name}".
MaxBatch == 3

Lit(s) == [field |-> FALSE, s |-> s]

Field(name) == [field |-> TRUE, s |-> name]

RECURSIVE Format(_, _)
Format(parts, env) ==
  IF parts = <<>> THEN <<>>
  ELSE (IF Head(parts).field THEN env[Head(parts).s] ELSE <<Head(parts).s>>)
       \o Format(Tail(parts), env)

DigitChar(d) ==
  CASE d = 0 -> "0" [] d = 1 -> "1" [] d = 2 -> "2" [] d = 3 -> "3"
    [] d = 4 -> "4" [] d = 5 -> "5" [] d = 6 -> "6" [] d = 7 -> "7"
    [] d = 8 -> "8" [] d = 9 -> "9"

\* str(k) for k >= 0
RECURSIVE Decimal(_)
Decimal(k) ==
  IF k < 10 THEN <<DigitChar(k)>>
  ELSE Decimal(k \div 10) \o <<DigitChar(k % 10)>>

\* f"\n\n=== Dialogue {idx} ===\n{dialogue}\n"
EntryParts ==
  <<Lit("\n\n=== Dialogue "), Field("idx"), Lit(" ===\n"), Field("dialogue"),
    Lit("\n")>>

\* f"\n\n=== Dialogue {{idx}} ===\n{{dialogue}}\n"
EntryPartsDebate ==
  <<Lit("\n\n=== Dialogue "), Lit("{idx}"), Lit(" ===\n"), Lit("{dialogue}"),
    Lit("\n")>>

\* dialogues_text after the first n rounds of
\* for idx, dialogue in enumerate(dialogues_batch, 1): dialogues_text += ...
RECURSIVE DialoguesText(_, _, _)
DialoguesText(parts, dialogues_batch, n) ==
  IF n = 0 THEN <<>>
  ELSE DialoguesText(parts, dialogues_batch, n - 1)
       \o Format(parts, [idx |-> Decimal(n),
                         dialogue |-> <<dialogues_batch[n]>>])

get_user_prompt_baseline(dialogues_batch) ==
  LET dialogues_text ==
        DialoguesText(EntryParts, dialogues_batch, Len(dialogues_batch))
  IN  Format(<<Lit("baseline: task, few-shot examples; These are dialogues transcripts to evaluate:"),
               Field("dialogues_text"),
               Lit("\n  ")>>,
             [dialogues_text |-> dialogues_text])

get_user_prompt_barem(dialogues_batch) ==
  LET dialogues_text ==
        DialoguesText(EntryParts, dialogues_batch, Len(dialogues_batch))
  IN  Format(<<Lit("barem: task, scoring scale, few-shot examples; These are dialogues transcripts to evaluate:"),
               Field("dialogues_text"),
               Lit("\n\n  ")>>,
             [dialogues_text |-> dialogues_text])

get_user_prompting_self_consistency(dialogues_batch) ==
  LET dialogues_text ==
        DialoguesText(EntryParts, dialogues_batch, Len(dialogues_batch))
  IN  Format(<<Lit("self-consistency: instruction, output rules, examples; === Dialogue ===\n"),
               Field("dialogues_text"),
               Lit("\n\n=== Output JSON (ONLY) === example")>>,
             [dialogues_text |-> dialogues_text])

get_user_prompting_agent_debate(dialogues_batch) ==
  LET dialogues_text ==
        DialoguesText(EntryPartsDebate, dialogues_batch, Len(dialogues_batch))
  IN  Format(<<Lit("agent debate: task; There are transcripts of dialogues below.\n"),
               Lit("{dialogues_text}"),
               Lit("\nsteps, criteria, output format, example")>>,
             [dialogues_text |-> dialogues_text])

\* the dialogues handed to a builder: texts, each one atom
DialogueTexts == {"SYSTEM: Hi", "USER: Hi", "USER: Bye"}

Batches == UNION {[1..k -> DialogueTexts] : k \in 0..MaxBatch}

PromptBuilders ==
  {"get_user_prompt_baseline", "get_user_prompt_barem",
   "get_user_prompting_self_consistency", "get_user_prompting_agent_debate"}

PromptCalls == {[op |-> f, args |-> <<b>>] : f \in PromptBuilders, b \in Batches}

InitPrompt ==
  /\ dialogues = NewConverter.dialogues
  /\ current_dialogue = NewConverter.current_dialogue
  /\ heap = NewConverter.heap
  /\ lines = <<>>
  /\ idx = 1
  /\ pc = "idle"
  /\ outcome = "none"
  /\ nReads = 0
  /\ used = 0
  /\ closedBy = <<>>
  /\ snap = NewConverter
  /\ call \in PromptCalls
  /\ out = NoOutputs

CallBaseline ==
  /\ call.op = "get_user_prompt_baseline"
  /\ Return(get_user_prompt_baseline(call.args[1]))

CallBarem ==
  /\ call.op = "get_user_prompt_barem"
  /\ Return(get_user_prompt_barem(call.args[1]))

CallSelfConsistency ==
  /\ call.op = "get_user_prompting_self_consistency"
  /\ Return(get_user_prompting_self_consistency(call.args[1]))

CallAgentDebate ==
  /\ call.op = "get_user_prompting_agent_debate"
  /\ Return(get_user_prompting_agent_debate(call.args[1]))

NextPrompt ==
  \/ CallBaseline
  \/ CallBarem
  \/ CallSelfConsistency
  \/ CallAgentDebate

SpecPrompt == InitPrompt /\ [][NextPrompt]_vars

\* ---------------------------------------------------------------- vocabulary of the claims
\* the sentinel record: speaker "USER", text "OVERALL"
Sentinel(turn) == turn.speaker = <<"USER">> /\ turn.text = <<"OVERALL">>

ParsesToTurn(l) == Strip(l) # <<>> /\ parse_line(l).kind = "turn"

SentinelLine(l) == ParsesToTurn(l) /\ Sentinel(parse_line(l).turn)

OrdinaryLine(l) == ParsesToTurn(l) /\ ~Sentinel(parse_line(l).turn)

\* the parsed non-sentinel turns of ls, in line order
RECURSIVE OrdinaryTurns(_)
OrdinaryTurns(ls) ==
  IF ls = <<>> THEN <<>>
  ELSE (IF OrdinaryLine(Head(ls)) THEN <<parse_line(Head(ls)).turn>> ELSE <<>>)
       \o OrdinaryTurns(Tail(ls))

\* the sentinel at position i is met with turns accumulated since the
\* previous sentinel (or the start)
Effective(ls, i) ==
  /\ SentinelLine(ls[i])
  /\ \E j \in 1..(i - 1) :
       /\ OrdinaryLine(ls[j])
       /\ \A k \in (j + 1)..(i - 1) : ~SentinelLine(ls[k])

EffectiveSentinels(ls) == {i \in 1..Len(ls) : Effective(ls, i)}

\* turns after the last sentinel
TrailingRun(ls) ==
  \E j \in 1..Len(ls) :
    /\ OrdinaryLine(ls[j])
    /\ \A k \in (j + 1)..Len(ls) : ~SentinelLine(ls[k])

TurnsOf(i) == heap[dialogues[i].turns]

RECURSIVE ConcatTurns(_)
ConcatTurns(n) == IF n = 0 THEN <<>> ELSE ConcatTurns(n - 1) \o TurnsOf(n)

Present == {i \in 1..Len(dialogues) : dialogues[i].overall_scores.some}

\* the first operation on the converter was a read and it returned normally
FirstReadDone == pc = "idle" /\ outcome = "ok" /\ nReads = 1

\* ---------------------------------------------------------------- C1
\* C1 (as stated): after one read of an input without sentinel on a fresh
\* converter there is exactly one dialogue, holding all parsed turns in input
\* order, with overall_scores absent.
C1_ExactlyOneDialogue ==
  (FirstReadDone /\ \A i \in 1..Len(lines) : ~SentinelLine(lines[i]))
  => /\ Len(dialogues) = 1
     /\ TurnsOf(1) = OrdinaryTurns(lines)
     /\ dialogues[1].overall_scores = None

\* C1 (amended): the same for an input that has at least one parsed turn; an
\* input without any parsed turn yields no dialogue.
C1_OneDialogueIfAnyTurn ==
  (FirstReadDone /\ \A i \in 1..Len(lines) : ~SentinelLine(lines[i]))
  => IF OrdinaryTurns(lines) = <<>>
     THEN dialogues = <<>>
     ELSE /\ Len(dialogues) = 1
          /\ TurnsOf(1) = OrdinaryTurns(lines)
          /\ dialogues[1].overall_scores = None

C1_Witness ==
  /\ FirstReadDone
  /\ \A i \in 1..Len(lines) : ~SentinelLine(lines[i])
  /\ Len(OrdinaryTurns(lines)) >= 2
  /\ Len(dialogues) = 1

C3_PresentIffSentinel ==
  \A i \in 1..Len(dialogues) :
    dialogues[i].overall_scores.some <=> closedBy[i].kind = "sentinel"

\* C3 (amended): a dialogue has overall_scores present if and only if a
\* sentinel that carries scores closed it, and then they are that sentinel's
\* scores; a dialogue flushed at end of input has overall_scores absent.
C3_PresentIffScoredSentinel ==
  \A i \in 1..Len(dialogues) :
    IF closedBy[i].kind = "sentinel"
    THEN /\ SentinelLine(closedBy[i].line)
         /\ dialogues[i].overall_scores = parse_line(closedBy[i].line).turn.scores
    ELSE dialogues[i].overall_scores = None

C3_Witness ==
  \E j, k \in 1..Len(dialogues) :
    /\ closedBy[j].kind = "sentinel" /\ ~dialogues[j].overall_scores.some
    /\ closedBy[k].kind = "eof"

\* ---------------------------------------------------------------- C4
\* C4: a sentinel line met with a non-empty accumulator appends exactly one
\* dialogue at the end of the result list: its turns are the accumulated
\* turns in order, its overall_scores are the sentinel's parsed scores, the
\* sentinel is not among its turns, and the accumulator is empty afterwards.
C4_SentinelCloses ==
  [][(InLoop /\ SentinelLine(lines[idx]) /\ heap[current_dialogue] # <<>>)
     => LET n == Len(dialogues)
        IN  /\ Len(dialogues') = n + 1
            /\ SubSeq(dialogues', 1, n) = dialogues
            /\ heap'[dialogues'[n + 1].turns] = heap[current_dialogue]
            /\ dialogues'[n + 1].overall_scores = parse_line(lines[idx]).turn.scores
            /\ \A k \in 1..Len(heap'[dialogues'[n + 1].turns]) :
                 ~Sentinel(heap'[dialogues'[n + 1].turns][k])
            /\ heap'[current_dialogue'] = <<>>
            /\ pc' = "reading"]_vars

C4_Witness ==
  /\ pc = "reading"
  /\ Len(dialogues) = 1
  /\ closedBy[1].kind = "sentinel"
  /\ closedBy[1].at = idx - 1
  /\ dialogues[1].overall_scores.some
  /\ Len(TurnsOf(1)) = 2
  /\ heap[current_dialogue] = <<>>

\* ---------------------------------------------------------------- C5
\* C5: at end of input one last dialogue, holding the accumulated turns and
\* with overall_scores absent, is appended if and only if the accumulator is
\* non-empty; with an empty accumulator nothing is appended.
C5_FlushAtEndOfInput ==
  [][AtEnd
     => LET n == Len(dialogues)
        IN  IF heap[current_dialogue] # <<>>
            THEN /\ Len(dialogues') = n + 1
                 /\ SubSeq(dialogues', 1, n) = dialogues
                 /\ heap'[dialogues'[n + 1].turns] = heap[current_dialogue]
                 /\ dialogues'[n + 1].overall_scores = None
            ELSE dialogues' = dialogues /\ heap' = heap]_vars

C5_Witness ==
  /\ pc = "idle"
  /\ outcome = "ok"
  /\ Len(dialogues) = 2
  /\ closedBy[1].kind = "sentinel"
  /\ closedBy[2].kind = "eof"
  /\ closedBy[2].at = Len(lines) + 1

\* ---------------------------------------------------------------- C6
\* C6: a sentinel line met with an empty accumulator raises no error and
\* leaves the result list and the accumulator as they are.
C6_SentinelDropped ==
  [][(InLoop /\ SentinelLine(lines[idx]) /\ heap[current_dialogue] = <<>>)
     => /\ dialogues' = dialogues
        /\ current_dialogue' = current_dialogue
        /\ heap' = heap
        /\ pc' = "reading"
        /\ outcome' = outcome]_vars

C6_Witness ==
  /\ pc = "reading"
  /\ nReads = 1
  /\ idx = 4
  /\ OrdinaryLine(lines[1])
  /\ SentinelLine(lines[2])
  /\ SentinelLine(lines[3])
  /\ parse_line(lines[3]).turn.scores.some
  /\ Len(dialogues) = 1
  /\ heap[current_dialogue] = <<>>

\* ---------------------------------------------------------------- C7
\* a blank line, or a raw line with fewer than 3 tab-separated fields
FewerThanThreeFields(l) == Strip(l) = <<>> \/ Len(Split(l, T)) < 3

InsertAt(ls, i, l) == SubSeq(ls, 1, i - 1) \o <<l>> \o SubSeq(ls, i, Len(ls))

SkippedLines == {LineBlank, LineTwo, <<"Hi", T>>, <<"USER", T, "OVERALL", "\n">>}

\* C7: a blank line and a line with fewer than 3 tab-separated fields (the
\* two-field USER/OVERALL line included) leave the result list and the
\* accumulator unchanged and raise no error; and the outcome of a read is the
\* outcome of reading the same lines with such a line inserted anywhere.
C7_ShortLinesSkipped ==
  /\ [][(InLoop /\ FewerThanThreeFields(lines[idx]))
        => /\ dialogues' = dialogues
           /\ current_dialogue' = current_dialogue
           /\ heap' = heap
           /\ pc' = "reading"
           /\ outcome' = outcome]_vars
  /\ [](\A s \in SkippedLines :
          /\ FewerThanThreeFields(s)
          /\ (pc = "idle" /\ outcome \in {"ok", "format_error"})
             => \A i \in 1..(Len(lines) + 1) :
                  _process_lines(snap, InsertAt(lines, i, s))
                    = [st |-> Here, raised |-> outcome = "format_error"])

C7_Witness ==
  /\ pc = "idle"
  /\ outcome = "ok"
  /\ Len(lines) = 3
  /\ OrdinaryLine(lines[1])
  /\ lines[2] = LineTwo
  /\ OrdinaryLine(lines[3])
  /\ Len(dialogues) = 1
  /\ Len(TurnsOf(1)) = 2

\* ---------------------------------------------------------------- C8
\* C8: a read that raises the format error leaves the dialogue list and the
\* accumulator as they were when the read started.
C8_FailsAtomically ==
  (pc = "idle" /\ outcome = "format_error")
  => /\ dialogues = snap.dialogues
     /\ current_dialogue = snap.current_dialogue
     /\ heap = snap.heap

\* ---------------------------------------------------------------- C9
\* C9: a dialogue in the result list keeps its place, its turns and its
\* overall_scores in every later step.
C9_ClosedDialoguesFrozen ==
  [][\A i \in 1..Len(dialogues) :
       /\ i <= Len(dialogues')
       /\ dialogues'[i].overall_scores = dialogues[i].overall_scores
       /\ heap'[dialogues'[i].turns] = heap[dialogues[i].turns]]_vars

\* ---------------------------------------------------------------- C10
\* C10: after one successful read on a fresh converter the turns of the
\* dialogues, concatenated in list order, are the parsed non-sentinel turns
\* in line order; the dialogues are in the order of their closing, each
\* holding the turns between the previous closing and its own.
C10_TurnsInInputOrder ==
  FirstReadDone
  => /\ ConcatTurns(Len(dialogues)) = OrdinaryTurns(lines)
     /\ \A i \in 1..Len(dialogues) :
          LET from == IF i = 1 THEN 1 ELSE closedBy[i - 1].at + 1
          IN  /\ from <= closedBy[i].at
              /\ TurnsOf(i) = OrdinaryTurns(SubSeq(lines, from, closedBy[i].at - 1))

C10_Witness ==
  /\ FirstReadDone
  /\ Len(dialogues) = 2
  /\ Len(OrdinaryTurns(lines)) = 2
  /\ TurnsOf(1) # TurnsOf(2)

\* ---------------------------------------------------------------- C11
\* the scores of the turns that have scores, in turn order
RECURSIVE FlatScores(_)
FlatScores(turns) ==
  IF turns = <<>> THEN <<>>
  ELSE LET last == turns[Len(turns)]
       IN  FlatScores(SubSeq(turns, 1, Len(turns) - 1))
           \o (IF last.scores.some THEN last.scores.val ELSE <<>>)

\* a is the arithmetic mean of the non-empty xs
IsMeanOf(a, xs) == xs # <<>> /\ a.n * Len(xs) = a.d * SumSeq(xs)

HasOverall(i) ==
  dialogues[i].overall_scores.some /\ dialogues[i].overall_scores.val # <<>>

\* C11: the average of a dialogue (as get_statistics reports it from
\* calculate_dialogue_average) is the mean of overall_scores when they are
\* present and non-empty, otherwise the mean of the turn scores flattened in
\* order without the turns that have none, and 0 when there are none at all.
C11_DialogueAverage ==
  out.stats.ran
  => \A i \in 1..Len(dialogues) :
       LET a == out.stats.value.dialogue_average_scores[i]
       IN  IF HasOverall(i)
           THEN IsMeanOf(a, dialogues[i].overall_scores.val)
           ELSE IF FlatScores(TurnsOf(i)) = <<>>
                THEN a = Zero
                ELSE IsMeanOf(a, FlatScores(TurnsOf(i)))

C11_Witness ==
  /\ out.stats.ran
  /\ \E i, j \in 1..Len(dialogues) :
       /\ HasOverall(i)
       /\ FlatScores(TurnsOf(i)) # <<>>
       /\ ~IsMeanOf(out.stats.value.dialogue_average_scores[i], FlatScores(TurnsOf(i)))
       /\ ~HasOverall(j)
       /\ FlatScores(TurnsOf(j)) = <<>>

\* ---------------------------------------------------------------- C13
NoSentinelScores243 ==
  /\ pc = "idle" /\ outcome = "ok" /\ nReads = 1
  /\ \A i \in 1..Len(lines) : ~SentinelLine(lines[i])
  /\ FlatScores(OrdinaryTurns(lines)) = <<2, 4, 3>>
  /\ out.json.ran

\* C13 (as stated): an input without sentinel whose turns carry the scores
\* [2,4] and [3] gives one dialogue of average 3.0 and rescaled average 50.25.
C13_Rescaled5025 ==
  NoSentinelScores243
  => /\ Len(out.json.value.dialogues) = 1
     /\ out.json.value.dialogues[1].average_score = FromInt(3)
     /\ out.json.value.dialogues[1].average_score_100 = Number(Rat(5025, 100))

\* C13 (amended): ... and rescaled average 50.5 (1 + (3 - 1) * 99 / 4).
C13_Rescaled505 ==
  NoSentinelScores243
  => /\ Len(out.json.value.dialogues) = 1
     /\ out.json.value.dialogues[1].average_score = FromInt(3)
     /\ out.json.value.dialogues[1].average_score_100 = Number(Rat(505, 10))

C13_Witness ==
  /\ NoSentinelScores243
  /\ Len(OrdinaryTurns(lines)) = 2
  /\ Len(dialogues) = 1

\* ---------------------------------------------------------------- C14
\* the scores a dialogue is averaged over sum to 0 (or there are none)
AveragesToZero(i) ==
  IF HasOverall(i)
  THEN SumSeq(dialogues[i].overall_scores.val) = 0
  ELSE SumSeq(FlatScores(TurnsOf(i))) = 0

\* C14: in the document of to_json_format, average_score_100 is None for
\* every dialogue whose average is exactly 0, be it for want of scores or
\* from scores that average to 0.
C14_ZeroAverageHasNoScore100 ==
  out.json.ran
  => \A i \in 1..Len(dialogues) :
       AveragesToZero(i)
       => /\ out.json.value.dialogues[i].average_score_100 = NoNumber
          /\ out.json.value.dialogues[i].average_score = Zero

C14_Witness ==
  /\ out.json.ran
  /\ \E i \in 1..Len(dialogues) :
       /\ FlatScores(TurnsOf(i)) # <<>>
       /\ AveragesToZero(i)
       /\ ~out.json.value.dialogues[i].average_score_100.some

\* ---------------------------------------------------------------- C17
RECURSIVE SumCounts(_)
SumCounts(counts) ==
  IF counts = <<>> THEN 0 ELSE Head(counts).count + SumCounts(Tail(counts))

\* C17: in the result of get_statistics the counts of intent_distribution
\* add up to total_turns, which is the sum of the turn counts of the dialogues.
C17_IntentCountsAddUp ==
  out.stats.ran
  => /\ SumCounts(out.stats.value.intent_distribution) = out.stats.value.total_turns
     /\ out.stats.value.total_turns = Len(ConcatTurns(Len(dialogues)))

C17_Witness ==
  /\ out.stats.ran
  /\ Len(out.stats.value.intent_distribution) = 2
  /\ \E k \in 1..2 : out.stats.value.intent_distribution[k].count = 2
  /\ out.stats.value.total_turns = 3

\* ---------------------------------------------------------------- C18
\* C18: with zero dialogues get_statistics returns 0 for total_dialogues,
\* total_turns, average_turns_per_dialogue and overall_average_score, nothing
\* in intent_distribution and dialogue_average_scores, and no rescaled value.
C18_EmptyStatistics ==
  (out.stats.ran /\ dialogues = <<>>)
  => /\ out.stats.value.total_dialogues = 0
     /\ out.stats.value.total_turns = 0
     /\ out.stats.value.average_turns_per_dialogue = Zero
     /\ out.stats.value.overall_average_score = Zero
     /\ out.stats.value.intent_distribution = <<>>
     /\ out.stats.value.dialogue_average_scores = <<>>
     /\ out.stats.value.overall_average_score_100 = NoNumber

C18_Witness ==
  /\ out.stats.ran
  /\ dialogues = <<>>
  /\ nReads = 1
  /\ outcome = "ok"

\* ---------------------------------------------------------------- C19
\* C19: the conversation of a dialogue has one message per turn in turn
\* order: role "user" exactly for speaker "USER" and "assistant" otherwise,
\* the text as content, and metadata {intent, scores} attached if and only
\* if the intent is not "OTHER" or the scores are present.
C19_ChatMessages ==
  out.chat.ran
  => /\ Len(out.chat.value.conversations) = Len(dialogues)
     /\ \A i \in 1..Len(dialogues) :
          LET msgs == out.chat.value.conversations[i].messages
          IN  /\ Len(msgs) = Len(TurnsOf(i))
              /\ \A t \in 1..Len(msgs) :
                   LET turn == TurnsOf(i)[t]
                   IN  /\ msgs[t].role \in {"user", "assistant"}
                       /\ msgs[t].role = "user" <=> turn.speaker = <<"USER">>
                       /\ msgs[t].content = turn.text
                       /\ msgs[t].metadata.some
                            <=> (turn.intent # <<"OTHER">> \/ turn.scores.some)
                       /\ msgs[t].metadata.some
                            => /\ msgs[t].metadata.intent = turn.intent
                               /\ msgs[t].metadata.scores = turn.scores

C19_Witness ==
  /\ out.chat.ran
  /\ \E i \in 1..Len(dialogues) :
       LET msgs == out.chat.value.conversations[i].messages
       IN  \E a, b, c \in 1..Len(msgs) :
             /\ msgs[a].role = "assistant" /\ ~msgs[a].metadata.some
             /\ msgs[b].role = "assistant" /\ msgs[b].metadata.some
                  /\ ~msgs[b].metadata.scores.some
             /\ msgs[c].role = "user" /\ msgs[c].metadata.some
                  /\ msgs[c].metadata.intent = <<"OTHER">>

\* ---------------------------------------------------------------- C20
Renderers == {"text", "json", "chat", "stats"}

\* C20: a call of a renderer or of get_statistics leaves the dialogue list
\* and the accumulator as they are, and returns what the same renderer
\* returned before, whichever renderers were called in between.
C20_RenderersReadOnly ==
  [][nReads' = nReads
     => /\ dialogues' = dialogues
        /\ current_dialogue' = current_dialogue
        /\ heap' = heap
        /\ \A k \in Renderers : out[k].ran => out'[k] = out[k]]_vars

C20_Witness ==
  /\ \A k \in Renderers : out[k].ran
  /\ Len(dialogues) = 2
  /\ out.json.value.total_dialogues = 2
  /\ Len(out.text.value) > 4
  /\ Len(out.chat.value.conversations) = 2
  /\ out.stats.value.total_turns = 2

\* ---------------------------------------------------------------- C12
ScaleReturned == call.op = "scale_score" /\ out.result.ran

\* C12: scale_score returns new_min when old_max = old_min, whatever the
\* value, and otherwise new_min + (value - old_min) * (new_max - new_min) /
\* (old_max - old_min); with the default ranges 1 goes to 1 and 5 to 100.
C12_ScaleScore ==
  ScaleReturned
  => LET v == call.args[1]
         a == call.args[2]
         b == call.args[3]
         c == call.args[4]
         d == call.args[5]
         r == out.result.value
     IN  /\ a = b => r = FromInt(c)
         /\ a # b => r.n * v.d * (b - a)
                       = r.d * v.d * c * (b - a) + r.d * (v.n - a * v.d) * (d - c)
         /\ (a = 1 /\ b = 5 /\ c = 1 /\ d = 100)
            => /\ r = scale_score_default(v)
               /\ v = FromInt(1) => r = FromInt(1)
               /\ v = FromInt(5) => r = FromInt(100)

C12_Witness ==
  /\ ScaleReturned
  /\ call.args[2] = call.args[3]
  /\ call.args[1] # FromInt(call.args[4])
  /\ call.args[4] # call.args[5]
  /\ out.result.value = FromInt(call.args[4])

\* ---------------------------------------------------------------- C15
ParseReturned == call.op = "parse_line" /\ out.result.ran

\* the tab-separated fields of the raw line
RawFields == Split(call.args[1], T)

\* C15: for a raw line of 3 or more tab-separated fields parse_line returns
\* a turn whose speaker, text and intent are the first, second and third
\* field of the raw line, each trimmed, also when the first or the third
\* field is empty or blank.
C15_FirstThreeRawFields ==
  (ParseReturned /\ Len(RawFields) >= 3 /\ out.result.value.kind # "error")
  => /\ out.result.value.kind = "turn"
     /\ out.result.value.turn.speaker = Strip(RawFields[1])
     /\ out.result.value.turn.text = Strip(RawFields[2])
     /\ out.result.value.turn.intent = Strip(RawFields[3])

\* ---------------------------------------------------------------- C16
\* the non-empty trimmed comma-separated tokens of the 4th raw field
RawScoreTokens ==
  IF Len(RawFields) >= 4
  THEN LET toks == Split(Strip(RawFields[4]), ",")
       IN  SelectSeq([i \in 1..Len(toks) |-> Strip(toks[i])], LAMBDA t : t # <<>>)
  ELSE <<>>

\* C16: the scores of the returned turn are the tokens of the 4th field of
\* the line as integers, in order, duplicates kept; they are None when there
\* is no 4th field or it yields no token; later fields are ignored.
C16_ScoresFromFourthRawField ==
  (/\ ParseReturned
   /\ out.result.value.kind = "turn"
   /\ \A i \in 1..Len(RawScoreTokens) : IsIntToken(RawScoreTokens[i]))
  => out.result.value.turn.scores
       = IF RawScoreTokens = <<>>
         THEN None
         ELSE Some([i \in 1..Len(RawScoreTokens) |-> IntOf(RawScoreTokens[i])])

\* ---------------------------------------------------------------- C21
\* C21: after a read has returned, the accumulator is empty and is the turn
\* list of no dialogue of the result list.
C21_AccumulatorReset ==
  (pc = "idle" /\ outcome = "ok")
  => /\ heap[current_dialogue] = <<>>
     /\ \A i \in 1..Len(dialogues) : dialogues[i].turns # current_dialogue

\* ---------------------------------------------------------------- C22
\* the result list by value: every dialogue with the turns its list holds
DialoguesOf(st) ==
  [i \in 1..Len(st.dialogues) |->
     [turns |-> st.heap[st.dialogues[i].turns],
      overall_scores |-> st.dialogues[i].overall_scores]]

RECURSIVE CountTurnsOf(_)
CountTurnsOf(ds) ==
  IF ds = <<>> THEN 0 ELSE Len(Head(ds).turns) + CountTurnsOf(Tail(ds))

\* C22: when a successful read of A on a fresh converter is followed by a
\* successful read of B, the result list is the list A yields on a fresh
\* converter followed by the list B yields on a fresh converter, and the
\* number of turns in it is the number of parsed non-sentinel turns of A plus
\* that of B (so that no dialogue mixes turns of A and B).
C22_ReadsCompose ==
  (pc = "idle" /\ outcome = "ok" /\ nReads = 2)
  => \A textA \in Texts(MaxLines) :
       LET linesA == Split(Strip(textA), "\n")
           a == _process_lines(NewConverter, linesA)
           b == _process_lines(NewConverter, lines)
       IN  (~a.raised /\ a.st = snap)
           => /\ DialoguesOf(Here) = DialoguesOf(a.st) \o DialoguesOf(b.st)
              /\ CountTurnsOf(DialoguesOf(Here))
                   = Len(OrdinaryTurns(linesA)) + Len(OrdinaryTurns(lines))

\* ---------------------------------------------------------------- C23
\* C23: a parsed line is taken as the boundary if and only if its trimmed
\* speaker is exactly "USER" and its trimmed text exactly "OVERALL", whatever
\* its intent: such a line is never appended and closes the dialogue of the
\* accumulated turns (none accumulated, nothing changes); every other parsed
\* line ("user", "SYSTEM" with "OVERALL", "Overall", ...) closes no dialogue
\* and is appended to the accumulator as an ordinary turn.
C23_BoundaryExact ==
  [][(InLoop /\ ParsesToTurn(lines[idx]))
     => LET turn == parse_line(lines[idx]).turn
        IN  IF turn.speaker = <<"USER">> /\ turn.text = <<"OVERALL">>
            THEN IF heap[current_dialogue] # <<>>
                 THEN /\ Len(dialogues') = Len(dialogues) + 1
                      /\ heap'[dialogues'[Len(dialogues')].turns]
                           = heap[current_dialogue]
                      /\ heap'[current_dialogue'] = <<>>
                 ELSE /\ dialogues' = dialogues
                      /\ current_dialogue' = current_dialogue
                      /\ heap' = heap
            ELSE /\ dialogues' = dialogues
                 /\ current_dialogue' = current_dialogue
                 /\ heap' = [heap EXCEPT ![current_dialogue] = Append(@, turn)]]_vars

C23_Witness ==
  /\ Len(dialogues) = 1
  /\ closedBy[1].kind = "sentinel"
  /\ parse_line(closedBy[1].line).turn.intent = <<"ASK">>
  /\ \E a, b \in 1..Len(TurnsOf(1)) :
       /\ TurnsOf(1)[a].speaker = <<"user">>
       /\ TurnsOf(1)[a].text = <<"OVERALL">>
       /\ TurnsOf(1)[b].speaker = <<"USER">>
       /\ TurnsOf(1)[b].text = <<"Overall">>

\* ---------------------------------------------------------------- C24
\* C24: the documents of to_json_format and to_chat_format_json have one
\* record per dialogue under the same 1-based id (dialogue_id =
\* conversation_id), with equal overall_scores, average_score and
\* average_score_100, and as many messages as turn records.
C24_JsonAndChatAgree ==
  (out.json.ran /\ out.chat.ran)
  => LET ds == out.json.value.dialogues
         cs == out.chat.value.conversations
     IN  /\ Len(ds) = Len(dialogues)
         /\ Len(cs) = Len(dialogues)
         /\ \A i \in 1..Len(dialogues) :
              /\ ds[i].dialogue_id = i
              /\ cs[i].conversation_id = i
              /\ cs[i].overall_scores = ds[i].overall_scores
              /\ ds[i].overall_scores = dialogues[i].overall_scores
              /\ cs[i].average_score = ds[i].average_score
              /\ cs[i].average_score_100 = ds[i].average_score_100
              /\ Len(cs[i].messages) = Len(ds[i].turns)

C24_Witness ==
  /\ out.json.ran
  /\ out.chat.ran
  /\ Len(dialogues) = 2
  /\ out.chat.value.conversations[1].overall_scores.some
  /\ out.chat.value.conversations[1].average_score_100 = Number(FromInt(100))
  /\ out.chat.value.conversations[2].conversation_id = 2
  /\ out.json.value.dialogues[2].average_score_100 = NoNumber
  /\ Len(out.chat.value.conversations[2].messages) = 1

\* ---------------------------------------------------------------- C25
\* C25: in the document of to_json_format total_dialogues is the number of
\* dialogue records, the dialogue ids are 1..n in the order of the result
\* list, the turn ids of every dialogue are 1..k in turn order, and a turn
\* record carries the speaker, text, intent and scores (None when absent) of
\* its turn unchanged.
C25_JsonDocument ==
  out.json.ran
  => LET doc == out.json.value
     IN  /\ doc.total_dialogues = Len(doc.dialogues)
         /\ Len(doc.dialogues) = Len(dialogues)
         /\ \A i \in 1..Len(dialogues) :
              /\ doc.dialogues[i].dialogue_id = i
              /\ Len(doc.dialogues[i].turns) = Len(TurnsOf(i))
              /\ \A t \in 1..Len(TurnsOf(i)) :
                   LET rec == doc.dialogues[i].turns[t]
                       turn == TurnsOf(i)[t]
                   IN  /\ rec.turn_id = t
                       /\ rec.speaker = turn.speaker
                       /\ rec.text = turn.text
                       /\ rec.intent = turn.intent
                       /\ rec.scores = turn.scores

C25_Witness ==
  /\ out.json.ran
  /\ out.json.value.total_dialogues = 2
  /\ out.json.value.dialogues[2].dialogue_id = 2
  /\ out.json.value.dialogues[2].turns[1].turn_id = 1
  /\ out.json.value.dialogues[1].turns[1].scores = None
  /\ out.json.value.dialogues[2].turns[1].scores = Some(<<2, 4>>)

\* ---------------------------------------------------------------- C26
\* r is x to two decimals: a number of hundredths at most half a hundredth
\* away from x
IsRounded2(r, x) ==
  /\ (100 * r.n) % r.d = 0
  /\ 200 * Abs(r.n * x.d - x.n * r.d) <= r.d * x.d

RECURSIVE SumOfAverages(_)
SumOfAverages(avgs) ==
  IF avgs = <<>> THEN Zero ELSE RatAdd(Head(avgs), SumOfAverages(Tail(avgs)))

\* C26: get_statistics returns in dialogue_average_scores one average per
\* dialogue, in dialogue order, and as overall_average_score (to two
\* decimals) the mean of these averages: their sum over the number of
\* dialogues, a dialogue without any score counting with the average 0.
C26_MeanOfAverages ==
  out.stats.ran
  => LET avgs == out.stats.value.dialogue_average_scores
         n == Len(dialogues)
     IN  /\ Len(avgs) = n
         /\ \A i \in 1..n :
              IF HasOverall(i)
              THEN IsMeanOf(avgs[i], dialogues[i].overall_scores.val)
              ELSE IF FlatScores(TurnsOf(i)) = <<>>
                   THEN avgs[i] = Zero
                   ELSE IsMeanOf(avgs[i], FlatScores(TurnsOf(i)))
         /\ n > 0
            => IsRounded2(out.stats.value.overall_average_score,
                          RatDiv(SumOfAverages(avgs), FromInt(n)))

C26_Witness ==
  /\ out.stats.ran
  /\ Len(dialogues) = 2
  /\ out.stats.value.dialogue_average_scores = <<FromInt(5), Zero>>
  /\ FlatScores(TurnsOf(1)) = <<2, 4>>
  /\ out.stats.value.overall_average_score = Rat(5, 2)

\* ---------------------------------------------------------------- C27
\* the sum of the scores a dialogue is averaged over (0 when there are none);
\* the average has the sign of this sum
ScoreSum(i) ==
  IF HasOverall(i)
  THEN SumSeq(dialogues[i].overall_scores.val)
  ELSE SumSeq(FlatScores(TurnsOf(i)))

\* C27: average_score_100 of a dialogue (to_json_format and
\* to_chat_format_json) and overall_average_score_100 (get_statistics) carry
\* a number if and only if the average they rescale is greater than 0: an
\* average below 0 gives None like the average 0.
C27_Score100IffPositive ==
  /\ out.json.ran
     => \A i \in 1..Len(dialogues) :
          out.json.value.dialogues[i].average_score_100.some <=> ScoreSum(i) > 0
  /\ out.chat.ran
     => \A i \in 1..Len(dialogues) :
          out.chat.value.conversations[i].average_score_100.some <=> ScoreSum(i) > 0
  /\ out.stats.ran
     => (out.stats.value.overall_average_score_100.some
         <=> SumOfAverages(out.stats.value.dialogue_average_scores).n > 0)

C27_Witness ==
  /\ out.json.ran
  /\ out.chat.ran
  /\ out.stats.ran
  /\ Len(dialogues) = 2
  /\ ScoreSum(1) < 0
  /\ out.json.value.dialogues[1].average_score = FromInt(0 - 5)
  /\ out.json.value.dialogues[1].average_score_100 = NoNumber
  /\ out.chat.value.conversations[1].average_score_100 = NoNumber
  /\ out.chat.value.conversations[2].average_score_100.some
  /\ out.stats.value.overall_average_score = FromInt(0 - 1)
  /\ out.stats.value.overall_average_score_100 = NoNumber

\* ---------------------------------------------------------------- C28
\* C28: in every reachable state, during and after reads that succeed or
\* fail, every dialogue of the result list has at least one turn.
C28_NoEmptyDialogue ==
  \A i \in 1..Len(dialogues) : TurnsOf(i) # <<>>

C28_Witness ==
  /\ pc = "idle"
  /\ outcome = "format_error"
  /\ Len(dialogues) = 1
  /\ closedBy[1].kind = "sentinel"
  /\ Len(TurnsOf(1)) = 1
  /\ heap[current_dialogue] = <<>>

\* ---------------------------------------------------------------- C29
\* the stored turns: those of the lists of the dialogues, in list order
StoredTurns == ConcatTurns(Len(dialogues))

\* C29: in every reachable state no turn in the accumulator or in a dialogue
\* of the result list has speaker "USER" and text "OVERALL"; get_statistics
\* called in that state counts no such turn in total_turns or in the intent
\* histogram.
C29_NoSentinelStored ==
  /\ \A r \in 1..Len(heap) : \A k \in 1..Len(heap[r]) : ~Sentinel(heap[r][k])
  /\ LET stats == get_statistics(Here).value
         kept == SelectSeq(StoredTurns, LAMBDA t : ~Sentinel(t))
     IN  /\ stats.total_turns = Len(kept)
         /\ SumCounts(stats.intent_distribution) = Len(kept)

C29_Witness ==
  /\ pc = "idle"
  /\ outcome = "ok"
  /\ nReads = 1
  /\ Len(lines) = 3
  /\ SentinelLine(lines[1])
  /\ OrdinaryLine(lines[2])
  /\ SentinelLine(lines[3])
  /\ Len(dialogues) = 1
  /\ Len(StoredTurns) = 1

\* ---------------------------------------------------------------- C30
PromptReturned == call.op \in PromptBuilders /\ out.result.ran

\* the header of dialogue number k followed by the text d
HeaderAndText(k, d) == <<"\n\n=== Dialogue ">> \o Decimal(k) \o <<" ===\n", d>>

\* the places of the prompt p where seg stands
Places(p, seg) ==
  {i \in 1..(Len(p) - Len(seg) + 1) : SubSeq(p, i, i + Len(seg) - 1) = seg}

\* C30: the prompt a builder returns holds, for every dialogue of the batch,
\* the header "=== Dialogue k ===" (k its place in the batch, from 1)
\* followed by the text of that dialogue, the dialogues in batch order.
C30_PromptHoldsEveryDialogue ==
  PromptReturned
  => LET p == out.result.value
         batch == call.args[1]
     IN  /\ \A k \in 1..Len(batch) : Places(p, HeaderAndText(k, batch[k])) # {}
         /\ \A k \in 1..(Len(batch) - 1) :
              \E i \in Places(p, HeaderAndText(k, batch[k])) :
                \E j \in Places(p, HeaderAndText(k + 1, batch[k + 1])) : i < j

====
